---- MODULE Spec2Model ----
(***************************************************************************)
(* Transaction construction of ckb-sdk-rust: the type-id script handler    *)
(* (src/transaction/handler/typeid.rs) acting on a transaction builder,    *)
(* and OmniLockTransferBuilder::build_base (src/tx_builder/omni_lock);     *)
(* and the caller-facing objects: DefaultOmnilockBuilder                   *)
(* (src/tx_builder/omni_lock/builder.rs), the DAO builders                 *)
(* (src/tx_builder/dao/builder.rs) and HandlerContexts                     *)
(* (src/transaction/handler/mod.rs).                                       *)
(*                                                                         *)
(* Option<T> is a sequence of length 0 (None) or 1 (Some).  Byte strings   *)
(* are sequences of 0..255.  A Capacity (u64 shannons) is kept as two      *)
(* limbs, whole bytes and the remaining shannons, because the numbers of   *)
(* the checker are 32 bits wide.                                           *)
(***************************************************************************)
EXTENDS Integers, Sequences, FiniteSets, TLC

VARIABLES
    builder,             \* OmniLockTransferBuilder and the resolver build_base is given
    context,             \* the HandlerContext handed to the handler
    tx,                  \* TransactionBuilder: cell_deps, header_deps, inputs, outputs, outputs_data
    transaction_inputs,  \* PrepareTransactionViewer.transaction_inputs
    pc,                  \* "new" before build_base, "built" after Ok, "failed" after Err or abort
    ret,                 \* the last call: its name, arguments and result
    pre,                 \* tx and transaction_inputs as they were when the last call started
    facade,              \* the caller-facing object in hand: a Default*Builder or a HandlerContexts
    fcall                \* the last call on the facade: name, argument, result, the facade before it

vars == <<builder, context, tx, transaction_inputs, pc, ret, pre, facade, fcall>>

-----------------------------------------------------------------------------
(* Bounds of the model *)

MaxOutputs == 3
MaxRce == 2
MaxDataLen == 1

-----------------------------------------------------------------------------
(* Option and byte strings *)

None == <<>>
Some(x) == <<x>>
IsSome(o) == Len(o) = 1
Unwrap(o) == o[1]

Zeros(n) == [i \in 1..n |-> 0]
Fill(n, b) == [i \in 1..n |-> b]

RECURSIVE LeBytes(_, _)
\* u64::to_le_bytes / the little-endian packing of an integer: n bytes, low byte first
LeBytes(v, n) == IF n = 0 THEN <<>> ELSE <<v % 256>> \o LeBytes(v \div 256, n - 1)

RECURSIVE SumBytes(_)
SumBytes(s) == IF s = <<>> THEN 0 ELSE (s[1] + 3 * SumBytes(Tail(s))) % 65521

\* blake2b with the ckb personalisation, 32 bytes out.  The digest is a stand-in
\* that separates the inputs of the model and is never the all-zero string.
Blake2b(bytes) == [i \in 1..32 |-> IF i = 1 THEN 1 + (SumBytes(bytes) % 255)
                                   ELSE (SumBytes(bytes) \div 255 + Len(bytes) + i) % 256]

-----------------------------------------------------------------------------
(* Scripts and script identity *)

TYPE_ID_CODE_HASH == "TYPE_ID"
SIGHASH_TYPE_HASH == "SIGHASH"
MULTISIG_TYPE_HASH == "MULTISIG"
SudtCodeHash == "SUDT"
UnknownCodeHash == "UNKNOWN"

Script(code_hash, hash_type, args) ==
    [code_hash |-> code_hash, hash_type |-> hash_type, args |-> args]

\* ScriptId::from(&script)
ScriptIdOf(script) == [code_hash |-> script.code_hash, hash_type |-> script.hash_type]

\* ScriptId::new_type(code_hash)
NewTypeId(code_hash) == [code_hash |-> code_hash, hash_type |-> "Type"]

\* ScriptId::dummy_script: the identity with empty args
DummyScript(id) == Script(id.code_hash, id.hash_type, <<>>)

\* ScriptId::is_type_id
IsTypeId(id) == id.code_hash = TYPE_ID_CODE_HASH /\ id.hash_type = "Type"

\* a handler that takes every script group for its own
is_match_Any(script) == TRUE
\* TypeIdHandler::is_match
is_match(script) == IsTypeId(ScriptIdOf(script))

\* the type-id script create() builds: 32 zero bytes as args
PlaceholderTypeId_Short == Script(TYPE_ID_CODE_HASH, "Type", Zeros(20))
PlaceholderTypeId == Script(TYPE_ID_CODE_HASH, "Type", Zeros(32))

SenderLock == Script(SIGHASH_TYPE_HASH, "Type", Fill(20, 1))
OtherLock == Script(SIGHASH_TYPE_HASH, "Type", Fill(20, 2))
LongLock == Script(UnknownCodeHash, "Data", Fill(22, 3))

ExistingTypeId == Script(TYPE_ID_CODE_HASH, "Type", Fill(32, 9))
ShortTypeId == Script(TYPE_ID_CODE_HASH, "Type", <<>>)
DataHashTypeId == Script(TYPE_ID_CODE_HASH, "Data", Fill(32, 9))
SudtType == Script(SudtCodeHash, "Type", Fill(32, 4))
UnknownType == Script(UnknownCodeHash, "Type", <<5>>)

-----------------------------------------------------------------------------
(* Capacity *)

BYTE_SHANNONS == 100000000

Cap(b, s) == [bytes |-> b, shannons |-> s]
\* Capacity::bytes(n): n * 10^8 shannons
CapacityBytes(n) == Cap(n, 0)
\* Capacity::safe_add
CapAdd(a, b) ==
    Cap(a.bytes + b.bytes + (a.shannons + b.shannons) \div BYTE_SHANNONS,
        (a.shannons + b.shannons) % BYTE_SHANNONS)
\* a.as_u64() < b.as_u64()
CapLess(a, b) == a.bytes < b.bytes \/ (a.bytes = b.bytes /\ a.shannons < b.shannons)
CapLeq(a, b) == ~CapLess(b, a)

\* Script::occupied_capacity: code hash (32) + hash type (1) + args
ScriptOccupied(script) == CapacityBytes(32 + 1 + Len(script.args))

\* CellOutput::occupied_capacity(data_capacity): 8 + lock + type + data
OccupiedCapacity(output, data_capacity) ==
    CapAdd(CapAdd(CapAdd(CapacityBytes(8), data_capacity), ScriptOccupied(output.lock)),
           IF IsSome(output.type_) THEN ScriptOccupied(Unwrap(output.type_))
           ELSE CapacityBytes(0))

CellOutput(capacity, lock, type_) == [capacity |-> capacity, lock |-> lock, type_ |-> type_]

-----------------------------------------------------------------------------
(* Out-points, inputs and the chain the providers read *)

OutPoint(tx_hash, index) == [tx_hash |-> tx_hash, index |-> index]
CellInput(previous_output, since) == [previous_output |-> previous_output, since |-> since]

\* CellInput::as_slice: since (u64 LE), then the out-point: tx_hash (32 bytes), index (u32 LE)
CellInputSlice(input) ==
    LeBytes(input.since, 8) \o Fill(32, input.previous_output.tx_hash)
        \o LeBytes(input.previous_output.index, 4)

OpTypeId == OutPoint(1, 0)      \* a live type-id cell, its block header known
OpNoHeader == OutPoint(2, 0)    \* a live type-id cell whose transaction has no known block
OpNoType == OutPoint(3, 0)      \* a live cell without a type script
OpSudt == OutPoint(4, 1)        \* a live cell whose type script is not type-id
OpDataHash == OutPoint(5, 0)    \* type script with the type-id code hash but hash type Data
OpMissing == OutPoint(6, 0)     \* the provider has no such cell
OpRpcDown == OutPoint(7, 0)     \* the header query itself fails
OutPoints == {OpTypeId, OpNoHeader, OpNoType, OpSudt, OpDataHash, OpMissing, OpRpcDown}

Header(hash, number) == [hash |-> hash, number |-> number]

\* HeaderDepResolver::resolve_by_tx: "Err", or Ok with an optional header
ResolveByTx(tx_hash) ==
    IF tx_hash = OpRpcDown.tx_hash THEN [ok |-> FALSE, header |-> None]
    ELSE IF tx_hash = OpNoHeader.tx_hash THEN [ok |-> TRUE, header |-> None]
    ELSE [ok |-> TRUE, header |-> Some(Header(100 + tx_hash, 10 * tx_hash))]

\* TransactionDependencyProvider::get_cell_with_data
GetCellWithData(out_point) ==
    CASE out_point = OpTypeId ->
            [ok |-> TRUE, cell |-> CellOutput(Cap(200, 0), SenderLock, Some(ExistingTypeId)), data |-> <<7>>]
      [] out_point = OpNoHeader ->
            [ok |-> TRUE, cell |-> CellOutput(Cap(200, 0), SenderLock, Some(ExistingTypeId)), data |-> <<7>>]
      [] out_point = OpRpcDown ->
            [ok |-> TRUE, cell |-> CellOutput(Cap(200, 0), OtherLock, Some(ExistingTypeId)), data |-> <<>>]
      [] out_point = OpNoType ->
            [ok |-> TRUE, cell |-> CellOutput(Cap(100, 0), LongLock, None), data |-> <<>>]
      [] out_point = OpSudt ->
            [ok |-> TRUE, cell |-> CellOutput(Cap(150, 0), OtherLock, Some(SudtType)), data |-> <<1>>]
      [] out_point = OpDataHash ->
            [ok |-> TRUE, cell |-> CellOutput(Cap(150, 0), OtherLock, Some(DataHashTypeId)), data |-> <<>>]
      [] OTHER ->
            [ok |-> FALSE, cell |-> CellOutput(Cap(0, 0), SenderLock, None), data |-> <<>>]

\* TransactionDependencyProvider::get_cell
GetCell(out_point) == GetCellWithData(out_point)

-----------------------------------------------------------------------------
(* Results *)

Ok(value) == [kind |-> "Ok", value |-> value, err |-> "", detail |-> <<>>]
Err(err, detail) == [kind |-> "Err", value |-> FALSE, err |-> err, detail |-> detail]
\* unwrap() on None, an index out of range, todo!(): the call never returns
Panic(what) == [kind |-> "Panic", value |-> FALSE, err |-> what, detail |-> <<>>]

\* what a handler call hands back: its result and the viewer it leaves behind
Outcome(result, t, tis) == [result |-> result, tx |-> t, transaction_inputs |-> tis]

-----------------------------------------------------------------------------
(* TransactionBuilder: indices are those of the code, counted from 0 *)

EmptyTx == [cell_deps |-> {}, header_deps |-> {}, inputs |-> <<>>,
            outputs |-> <<>>, outputs_data |-> <<>>]

At(seq, index) == seq[index + 1]
InRange(seq, index) == index >= 0 /\ index < Len(seq)

\* TransactionBuilder::output
TxOutput(t, output) == [t EXCEPT !.outputs = Append(@, output)]
\* output_data left out: the data of the new output is never stored
TxOutputData_Dropped(t, data) == t
\* TransactionBuilder::output_data
TxOutputData(t, data) == [t EXCEPT !.outputs_data = Append(@, data)]
\* TransactionBuilder::set_output
TxSetOutput(t, index, output) == [t EXCEPT !.outputs[index + 1] = output]

-----------------------------------------------------------------------------
(* TypeIdContext and the other contexts *)

Handled == [tag |-> "Handled", lock |-> None, input_point |-> None]
Create(lock) == [tag |-> "Create", lock |-> Some(lock), input_point |-> None]
Update(input_point, lock) == [tag |-> "Update", lock |-> lock, input_point |-> Some(input_point)]

\* TypeIdContext::new
TypeIdContext(action, data, capacity) ==
    [kind |-> "TypeIdContext", action |-> action, data |-> data, capacity |-> capacity]

\* a context of another handler: the downcast to TypeIdContext fails
SighashContext ==
    [kind |-> "Secp256k1Blake160SighashAllScriptContext", action |-> Handled,
     data |-> <<>>, capacity |-> None]

IsTypeIdContext(ctx) == ctx.kind = "TypeIdContext"

-----------------------------------------------------------------------------
(* typeid.rs *)

\* the output add_output builds before the capacity is known
DraftOutput(lock, type_id_script) == CellOutput(Cap(0, 0), lock, Some(type_id_script))

\* occupied capacity as add_output computes it
AddOutputOccupied(lock, type_id_script, ctx) ==
    OccupiedCapacity(DraftOutput(lock, type_id_script), CapacityBytes(Len(ctx.data)))

AddOutputCapacity(occupied, ctx) ==
    IF IsSome(ctx.capacity) THEN Unwrap(ctx.capacity) ELSE occupied

\* the capacity check left out
AddOutputUnderfunded_Unchecked(occupied, ctx) == FALSE
\* the capacity check off by one: a capacity equal to the occupied one is refused
AddOutputUnderfunded_OffByOne(occupied, ctx) ==
    IsSome(ctx.capacity) /\ CapLeq(Unwrap(ctx.capacity), occupied)

AddOutputUnderfunded(occupied, ctx) ==
    IsSome(ctx.capacity) /\ CapLess(Unwrap(ctx.capacity), occupied)

add_output(lock, type_id_script, ctx, t, tis) ==
    LET occupied == AddOutputOccupied(lock, type_id_script, ctx)
        output == [DraftOutput(lock, type_id_script) EXCEPT
                      !.capacity = AddOutputCapacity(occupied, ctx)]
    IN  IF AddOutputUnderfunded(occupied, ctx)
        THEN Outcome(Err("InvalidCapacity", <<occupied, Unwrap(ctx.capacity)>>), t, tis)
        ELSE Outcome(Ok(TRUE), TxOutputData(TxOutput(t, output), ctx.data), tis)

calculate_type_id(first_cell_input, output_index) ==
    Blake2b(CellInputSlice(first_cell_input) \o LeBytes(output_index, 8))

create(lock, t, tis, ctx) == add_output(lock, PlaceholderTypeId, ctx, t, tis)

LiveCell(output, output_data, out_point, block_number) ==
    [output |-> output, output_data |-> output_data, out_point |-> out_point,
     block_number |-> block_number, tx_index |-> "u32::MAX"]

\* TransactionInput::new
TransactionInput(live_cell, since) == [live_cell |-> live_cell, since |-> since]

\* the new input put in front of the inputs already there
PushInput_Front(tis, transaction_input) == <<transaction_input>> \o tis
\* viewer.transaction_inputs.push
PushInput(tis, transaction_input) == Append(tis, transaction_input)

\* lock.as_ref().unwrap_or(&input_lock)
UpdateLock(lock, input_lock) == IF IsSome(lock) THEN Unwrap(lock) ELSE input_lock

update(input_point, lock, t, tis, ctx) ==
    LET resolved == ResolveByTx(input_point.tx_hash)
        got == GetCellWithData(input_point)
        input_cell == got.cell
        type_id_script == Unwrap(input_cell.type_)
        added == add_output(UpdateLock(lock, input_cell.lock), type_id_script, ctx, t, tis)
        live_cell == LiveCell(input_cell, got.data, input_point, Unwrap(resolved.header).number)
    IN  IF ~resolved.ok THEN Outcome(Err("Other", <<>>), t, tis)
        ELSE IF ~IsSome(resolved.header)
        THEN Outcome(Err("ResolveHeaderDepByTxHashFailed", <<input_point.tx_hash>>), t, tis)
        ELSE IF ~got.ok THEN Outcome(Err("TxDep", <<>>), t, tis)
        ELSE IF ~IsSome(input_cell.type_)
        THEN Outcome(Err("InvalidParameter", <<"the input cell has invalid type script">>), t, tis)
        ELSE IF ~IsTypeId(ScriptIdOf(type_id_script))
        THEN Outcome(Err("InvalidParameter", <<"the input cell does not have type id">>), t, tis)
        ELSE IF added.result.kind # "Ok" THEN added
        ELSE Outcome(Ok(TRUE), added.tx, PushInput(tis, TransactionInput(live_cell, 0)))

prepare_transaction(t, tis, ctx) ==
    IF ~IsTypeIdContext(ctx) THEN Outcome(Ok(FALSE), t, tis)
    ELSE CASE ctx.action.tag = "Handled" -> Outcome(Ok(TRUE), t, tis)
           [] ctx.action.tag = "Create" -> create(Unwrap(ctx.action.lock), t, tis, ctx)
           [] ctx.action.tag = "Update" ->
                update(Unwrap(ctx.action.input_point), ctx.action.lock, t, tis, ctx)

\* the args build_transaction writes when they are not 32 bytes long
BuildArgs(type_) == IF Len(type_.args) # 32 THEN Zeros(32) ELSE type_.args

build_transaction(t, tis, script_group, ctx) ==
    IF ~is_match(script_group.script) THEN Outcome(Ok(FALSE), t, tis)
    ELSE IF ~IsTypeIdContext(ctx) THEN Outcome(Ok(FALSE), t, tis)
    ELSE IF script_group.output_indices = <<>>
    THEN Outcome(Panic("output_indices.last().unwrap()"), t, tis)
    ELSE LET index == script_group.output_indices[Len(script_group.output_indices)]
         IN  IF ~InRange(t.outputs, index) THEN Outcome(Panic("get_outputs()[index]"), t, tis)
             ELSE LET output == At(t.outputs, index)
                  IN  IF ~IsSome(output.type_)
                      THEN Outcome(Panic("type_().to_opt().unwrap()"), t, tis)
                      ELSE LET type_ == Unwrap(output.type_)
                               rebuilt == [output EXCEPT !.type_ =
                                              Some([type_ EXCEPT !.args = BuildArgs(type_)])]
                           IN  Outcome(Ok(TRUE), TxSetOutput(t, index, rebuilt), tis)

\* the args post_build writes into a type script whose args are the placeholder
PostBuildArgs(t, index) == Zeros(32)

post_build(index, t, tis, ctx) ==
    IF t.outputs = <<>> THEN Outcome(Err("NoInput", <<>>), t, tis)
    ELSE IF ~InRange(t.outputs, index) THEN Outcome(Panic("get_outputs()[index]"), t, tis)
    ELSE LET output == At(t.outputs, index)
         IN  IF ~IsSome(output.type_)
             THEN Outcome(Panic("type_().to_opt().unwrap()"), t, tis)
             ELSE LET type_ == Unwrap(output.type_)
                      rebuilt == [output EXCEPT !.type_ =
                                     Some([type_ EXCEPT !.args = PostBuildArgs(t, index)])]
                  IN  IF type_.args = Zeros(32)
                      THEN Outcome(Ok(TRUE), TxSetOutput(t, index, rebuilt), tis)
                      ELSE Outcome(Ok(TRUE), t, tis)

-----------------------------------------------------------------------------
(* omni_lock/mod.rs: OmniLockTransferBuilder::build_base *)

IdentityFlags == {"PubkeyHash", "Ethereum", "Eos", "Tron", "Bitcoin", "Dogecoin",
                  "OwnerLock", "Multisig", "Dl", "Exec"}

CellDep(out_point, dep_type) == [out_point |-> out_point, dep_type |-> dep_type]

Range(seq) == {seq[i] : i \in DOMAIN seq}

\* CellDepResolver::resolve: by the identity of the script, whatever its args
Resolve(resolver, script) ==
    IF ScriptIdOf(script) \in DOMAIN resolver THEN Some(resolver[ScriptIdOf(script)]) ELSE None

\* the output type scripts build_base asks the resolver for
NeedsDep(output) == IsSome(output.type_) /\ ~IsTypeId(ScriptIdOf(Unwrap(output.type_)))

\* indices (from 1) of the outputs whose type script the resolver does not know
UnresolvedOutputs(b) ==
    {i \in DOMAIN b.outputs :
        /\ NeedsDep(b.outputs[i][1])
        /\ ~IsSome(Resolve(b.resolver, Unwrap(b.outputs[i][1].type_)))}

OutputCellDeps(b) ==
    {Unwrap(Resolve(b.resolver, Unwrap(b.outputs[i][1].type_))) :
        i \in {j \in DOMAIN b.outputs : NeedsDep(b.outputs[j][1])} \ UnresolvedOutputs(b)}

BaseOutputs(b) == [i \in DOMAIN b.outputs |-> b.outputs[i][1]]
BaseOutputsData(b) == [i \in DOMAIN b.outputs |-> b.outputs[i][2]]

HasAdmin(cfg) == IsSome(cfg.admin)
\* the RCE branch is entered: an admin config and a list of RCE cells
RceActive(b) == HasAdmin(b.cfg) /\ IsSome(b.rce_cells)
\* the rce_in_input flag of the admin config ignored
RceInInput_IgnoresFlag(b) == RceActive(b)
RceInInput(b) == RceActive(b) /\ Unwrap(b.cfg.admin).rce_in_input
RceCells(b) == IF RceActive(b) THEN Range(Unwrap(b.rce_cells)) ELSE {}

\* inputs.insert(input) for every RCE cell: a HashSet, one input per distinct out-point
RceInputs(b) == IF RceInInput(b) THEN {CellInput(c, 0) : c \in RceCells(b)} ELSE {}

\* tx_dep_provider.get_cell(cell)? fails for one of the RCE cells
RceCellMissing(b) == RceInInput(b) /\ \E c \in RceCells(b) : ~GetCell(c).ok

\* the scripts of a cell: its lock, and its type script when it has one
CellScripts(cell) == {cell.lock} \cup Range(cell.type_)

\* lock and type deps of the RCE cells, those the resolver knows
RceScriptDeps(b) ==
    IF RceInInput(b)
    THEN {Unwrap(Resolve(b.resolver, s)) :
            s \in {x \in UNION {CellScripts(GetCell(c).cell) : c \in RceCells(b)} :
                        IsSome(Resolve(b.resolver, x))}}
    ELSE {}

\* RCE cells as cell-deps when they are not inputs
RceCodeDeps(b) ==
    IF RceActive(b) /\ ~RceInInput(b) THEN {CellDep(c, "Code") : c \in RceCells(b)} ELSE {}

\* id_flag: admin_cfg.get_auth().flag() with an admin config, else cfg.id().flag()
IdFlag(cfg) == IF HasAdmin(cfg) THEN Unwrap(cfg.admin).auth.flag ELSE cfg.id.flag

\* the script the match on id_flag asks the resolver for, if any
IdentityScript(flag) ==
    CASE flag \in {"PubkeyHash", "Ethereum"} -> Some(DummyScript(NewTypeId(SIGHASH_TYPE_HASH)))
      [] flag = "Multisig" -> Some(DummyScript(NewTypeId(MULTISIG_TYPE_HASH)))
      [] OTHER -> None

\* the arms of the match that are written; every other flag runs into todo!()
IdFlagHandled(flag) == flag \in {"PubkeyHash", "Ethereum", "Multisig", "OwnerLock"}

IdentityDeps(b) ==
    {Unwrap(Resolve(b.resolver, s)) :
        s \in {x \in Range(IdentityScript(IdFlag(b.cfg))) : IsSome(Resolve(b.resolver, x))}}

BaseCellDeps(b) ==
    OutputCellDeps(b) \cup RceScriptDeps(b) \cup RceCodeDeps(b) \cup IdentityDeps(b)

\* the orders inputs.into_iter().collect() can give a HashSet
Orders(set) ==
    {q \in [1..Cardinality(set) -> set] : \A i, j \in 1..Cardinality(set) : q[i] = q[j] => i = j}

\* the result of build_base for one order of the input set
build_base(b, inputs) ==
    IF UnresolvedOutputs(b) # {}
    THEN LET first == CHOOSE i \in UnresolvedOutputs(b) : \A j \in UnresolvedOutputs(b) : i <= j
         IN  Outcome(Err("ResolveCellDepFailed", <<Unwrap(b.outputs[first][1].type_)>>), EmptyTx, <<>>)
    ELSE IF RceCellMissing(b) THEN Outcome(Err("TxDep", <<>>), EmptyTx, <<>>)
    ELSE IF ~IdFlagHandled(IdFlag(b.cfg)) THEN Outcome(Panic("todo!()"), EmptyTx, <<>>)
    ELSE Outcome(Ok(TRUE),
                 [cell_deps |-> BaseCellDeps(b), header_deps |-> {}, inputs |-> inputs,
                  outputs |-> BaseOutputs(b), outputs_data |-> BaseOutputsData(b)],
                 <<>>)

-----------------------------------------------------------------------------
(* What the callers hand in *)

Datas == {Zeros(n) : n \in 0..MaxDataLen}

\* capacities around the occupied capacity of the outputs the handler builds
Capacities == {None, Some(Cap(126, BYTE_SHANNONS - 1)), Some(Cap(127, 0)), Some(Cap(500, 0))}

Actions ==
    {Handled} \cup {Create(l) : l \in {SenderLock, LongLock}}
        \cup {Update(p, l) : p \in OutPoints, l \in {None, Some(OtherLock)}}

Contexts == {SighashContext} \cup
    {TypeIdContext(a, d, c) : a \in Actions, d \in Datas, c \in Capacities}

SighashDep == CellDep(OutPoint(50, 0), "DepGroup")
MultisigDep == CellDep(OutPoint(50, 1), "DepGroup")
SudtDep == CellDep(OutPoint(51, 0), "Code")

\* the dep resolvers: what the caller registered
FullResolver ==
    (NewTypeId(SIGHASH_TYPE_HASH) :> SighashDep) @@ (NewTypeId(MULTISIG_TYPE_HASH) :> MultisigDep)
        @@ (NewTypeId(SudtCodeHash) :> SudtDep)
SighashResolver == (NewTypeId(SIGHASH_TYPE_HASH) :> SighashDep)
EmptyResolver == [id \in {} |-> SighashDep]
Resolvers == {FullResolver, SighashResolver, EmptyResolver}

PlainOutput == <<CellOutput(Cap(100, 0), SenderLock, None), <<>>>>
ShortTypeIdOutput == <<CellOutput(Cap(200, 0), SenderLock, Some(ShortTypeId)), <<0>>>>
PlaceholderOutput == <<CellOutput(Cap(200, 0), OtherLock, Some(PlaceholderTypeId)), <<>>>>
SudtOutput == <<CellOutput(Cap(150, 0), SenderLock, Some(SudtType)), <<1>>>>
UnknownOutput == <<CellOutput(Cap(150, 0), SenderLock, Some(UnknownType)), <<>>>>

OutputLists ==
    {<<>>, <<PlainOutput>>, <<ShortTypeIdOutput>>, <<PlaceholderOutput, SudtOutput>>,
     <<SudtOutput, UnknownOutput>>, <<UnknownOutput, PlaceholderOutput>>}

Identity(flag) == [flag |-> flag]
AdminConfig(auth, rce_in_input) == [auth |-> auth, rce_in_input |-> rce_in_input]
OmniLockConfig(id, admin) == [id |-> id, admin |-> admin]

Configs ==
    {OmniLockConfig(Identity(f), None) : f \in IdentityFlags} \cup
    {OmniLockConfig(Identity("PubkeyHash"), Some(AdminConfig(Identity(f), r))) :
        f \in IdentityFlags, r \in BOOLEAN}

RcePoints == {OpSudt, OpTypeId, OpMissing}
RceLists == {None} \cup {Some(q) : q \in UNION {[1..n -> RcePoints] : n \in 0..MaxRce}}

\* OmniLockTransferBuilder::new, with the resolver build_base is called with
TransferBuilder(outputs, cfg, rce_cells, resolver) ==
    [outputs |-> outputs, cfg |-> cfg, rce_cells |-> rce_cells, resolver |-> resolver]

Builders ==
    {TransferBuilder(o, c, r, d) : o \in OutputLists, c \in Configs, r \in RceLists, d \in Resolvers}

\* the builders the handler runs start from: without RCE cells, and with two as inputs
PipelineBuilders ==
    {TransferBuilder(o, c, Some(<<OpSudt, OpTypeId>>), FullResolver) :
        o \in {<<>>, <<PlainOutput>>, <<ShortTypeIdOutput>>, <<PlaceholderOutput, SudtOutput>>},
        c \in {OmniLockConfig(Identity("PubkeyHash"), None),
               OmniLockConfig(Identity("PubkeyHash"), Some(AdminConfig(Identity("OwnerLock"), TRUE)))}}

RECURSIVE Ascending(_)
Ascending(set) ==
    IF set = {} THEN <<>>
    ELSE LET m == CHOOSE x \in set : \A y \in set : x <= y
         IN  <<m>> \o Ascending(set \ {m})

ScriptGroup(script, group_type, input_indices, output_indices) ==
    [script |-> script, group_type |-> group_type,
     input_indices |-> input_indices, output_indices |-> output_indices]

NoGroup == ScriptGroup(SenderLock, "None", <<>>, <<>>)

\* the script groups of the transaction: lock groups of the inputs, type groups of
\* inputs and outputs, their indices counted from 0
ScriptGroups(t, tis) ==
    LET typed_in(s) == {i - 1 : i \in {j \in DOMAIN tis : tis[j].live_cell.output.type_ = Some(s)}}
        typed_out(s) == {i - 1 : i \in {j \in DOMAIN t.outputs : t.outputs[j].type_ = Some(s)}}
        locked_in(s) == {i - 1 : i \in {j \in DOMAIN tis : tis[j].live_cell.output.lock = s}}
        types == UNION ({Range(t.outputs[i].type_) : i \in DOMAIN t.outputs}
                            \cup {Range(tis[i].live_cell.output.type_) : i \in DOMAIN tis})
        locks == {tis[i].live_cell.output.lock : i \in DOMAIN tis}
    IN  {ScriptGroup(s, "Type", Ascending(typed_in(s)), Ascending(typed_out(s))) : s \in types}
            \cup {ScriptGroup(s, "Lock", Ascending(locked_in(s)), <<>>) : s \in locks}

-----------------------------------------------------------------------------
(* The state machine *)

Call(op, result, index, group) == [op |-> op, result |-> result, index |-> index, group |-> group]
Snapshot == [tx |-> tx, transaction_inputs |-> transaction_inputs]

\* no caller-facing object has been constructed, no call made on one
NoFacade == [kind |-> "none"]
NoCall == [op |-> "none", arg |-> <<>>, result |-> Ok(FALSE), pre |-> NoFacade]

\* an input the caller put into the viewer before any handler ran
CallerInput ==
    TransactionInput(LiveCell(GetCellWithData(OpNoType).cell, GetCellWithData(OpNoType).data,
                              OpNoType, Unwrap(ResolveByTx(OpNoType.tx_hash).header).number), 0)

InitWith(builders, contexts, caller_inputs) ==
    /\ builder \in builders
    /\ context \in contexts
    /\ tx = EmptyTx
    /\ transaction_inputs \in caller_inputs
    /\ pc = "new"
    /\ ret = Call("none", Ok(FALSE), 0, NoGroup)
    /\ pre = [tx |-> EmptyTx, transaction_inputs |-> transaction_inputs]
    /\ facade = NoFacade
    /\ fcall = NoCall

Init == InitWith(PipelineBuilders, Contexts, {<<>>, <<CallerInput>>})
InitOmni == InitWith(Builders, {SighashContext}, {<<>>})

\* a handler call returned: the viewer it left, the call and what it started from
Returned(op, out, index, group) ==
    /\ tx' = out.tx
    /\ transaction_inputs' = out.transaction_inputs
    /\ ret' = Call(op, out.result, index, group)
    /\ pre' = Snapshot
    /\ pc' = IF out.result.kind = "Panic" THEN "aborted" ELSE pc
    /\ UNCHANGED <<builder, context, facade, fcall>>

BuildBase ==
    /\ pc = "new"
    /\ \E inputs \in Orders(RceInputs(builder)) :
          LET out == build_base(builder, inputs)
          IN  /\ tx' = out.tx
              /\ ret' = Call("build_base", out.result, 0, NoGroup)
              /\ pc' = IF out.result.kind = "Ok" THEN "built" ELSE "failed"
    /\ pre' = Snapshot
    /\ UNCHANGED <<builder, context, transaction_inputs, facade, fcall>>

Prepare ==
    /\ pc = "built"
    /\ Len(tx.outputs) < MaxOutputs
    /\ Returned("prepare_transaction",
                prepare_transaction(tx, transaction_inputs, context), 0, NoGroup)

BuildTransaction ==
    /\ pc = "built"
    /\ \E group \in ScriptGroups(tx, transaction_inputs) :
          Returned("build_transaction",
                   build_transaction(tx, transaction_inputs, group, context), 0, group)

PostBuild ==
    /\ pc = "built"
    /\ \E index \in 0..(IF tx.outputs = <<>> THEN 0 ELSE Len(tx.outputs) - 1) :
          Returned("post_build", post_build(index, tx, transaction_inputs, context), index, NoGroup)

Next == BuildBase \/ Prepare \/ BuildTransaction \/ PostBuild

Spec == Init /\ [][Next]_vars

NextOmni == BuildBase

SpecOmni == InitOmni /\ [][NextOmni]_vars

-----------------------------------------------------------------------------
(* Properties *)

OkTrue(r) == r.kind = "Ok" /\ r.value
OkFalse(r) == r.kind = "Ok" /\ ~r.value

ViewerUnchanged == tx = pre.tx /\ transaction_inputs = pre.transaction_inputs

PreparedBy(tag) ==
    /\ ret.op = "prepare_transaction"
    /\ context.kind = "TypeIdContext"
    /\ context.action.tag = tag

\* the output and the data the last call appended
LastOutput == tx.outputs[Len(tx.outputs)]
LastData == tx.outputs_data[Len(tx.outputs_data)]

\* C1: after post_build(index) returned Ok(true) on a transaction with an input
\* and an output, an output at index whose type script was the type-id script
\* with the 32-zero-byte placeholder has args = calculate_type_id(inputs[0], index).
C1_PostBuildWritesTypeId ==
    ( /\ ret.op = "post_build"
      /\ OkTrue(ret.result)
      /\ pre.tx.inputs # <<>>
      /\ InRange(pre.tx.outputs, ret.index)
      /\ At(pre.tx.outputs, ret.index).type_ = Some(PlaceholderTypeId) )
    => Unwrap(At(tx.outputs, ret.index).type_).args = calculate_type_id(tx.inputs[1], ret.index)

\* C2: prepare_transaction called again with the same context on the viewer the
\* first call left behind changes neither outputs, outputs_data nor
\* transaction_inputs.
C2_PrepareIdempotent ==
    [][ (ret.op = "prepare_transaction" /\ ret'.op = "prepare_transaction" /\ context' = context)
        => /\ tx'.outputs = tx.outputs
           /\ tx'.outputs_data = tx.outputs_data
           /\ transaction_inputs' = transaction_inputs ]_vars

\* C3: after a successful prepare_transaction with an Update context the hash of
\* the header resolve_by_tx gives for the input's transaction is a header-dep.
C3_UpdateAddsHeaderDep ==
    (PreparedBy("Update") /\ OkTrue(ret.result))
    => Unwrap(ResolveByTx(Unwrap(context.action.input_point).tx_hash).header).hash
            \in tx.header_deps

\* C4: an output the handler appends carries the capacity the caller gave, which
\* is then at least the occupied capacity, or else exactly the occupied capacity
\* of its lock, type script and data; either way occupied <= capacity.
C4_AppendedCapacity ==
    ((PreparedBy("Create") \/ PreparedBy("Update")) /\ OkTrue(ret.result))
    => /\ Len(tx.outputs) = Len(pre.tx.outputs) + 1
       /\ LastData = context.data
       /\ LET occupied == OccupiedCapacity(LastOutput, CapacityBytes(Len(LastData)))
          IN  /\ IsSome(context.capacity) => LastOutput.capacity = Unwrap(context.capacity)
              /\ ~IsSome(context.capacity) => LastOutput.capacity = occupied
              /\ CapLeq(occupied, LastOutput.capacity)

C4_Witness ==
    /\ PreparedBy("Create")
    /\ OkTrue(ret.result)
    /\ context.capacity = None
    /\ LastOutput.capacity = Cap(127, 0)

\* the cell an Update context points at, as the provider gives it
C5_InputCell == GetCellWithData(Unwrap(context.action.input_point))

\* the occupied capacity of the output the context asks for
C5_Occupied ==
    IF context.action.tag = "Create"
    THEN OccupiedCapacity(CellOutput(Cap(0, 0), Unwrap(context.action.lock), Some(PlaceholderTypeId)),
                          CapacityBytes(Len(context.data)))
    ELSE OccupiedCapacity(CellOutput(Cap(0, 0),
                                     IF IsSome(context.action.lock) THEN Unwrap(context.action.lock)
                                     ELSE C5_InputCell.cell.lock,
                                     C5_InputCell.cell.type_),
                          CapacityBytes(Len(context.data)))

C5_Underfunded == IsSome(context.capacity) /\ CapLess(Unwrap(context.capacity), C5_Occupied)

\* the checks update makes before it builds the output
C5_ChecksPass ==
    \/ context.action.tag = "Create"
    \/ /\ context.action.tag = "Update"
       /\ ResolveByTx(Unwrap(context.action.input_point).tx_hash).ok
       /\ IsSome(ResolveByTx(Unwrap(context.action.input_point).tx_hash).header)
       /\ C5_InputCell.ok
       /\ IsSome(C5_InputCell.cell.type_)
       /\ Unwrap(C5_InputCell.cell.type_).code_hash = TYPE_ID_CODE_HASH
       /\ Unwrap(C5_InputCell.cell.type_).hash_type = "Type"

\* C5 as stated: with a Create or Update context (the input cell known),
\* prepare_transaction fails with InvalidCapacity exactly when a capacity is given
\* and it is below the occupied capacity; and an error leaves the viewer as it was.
C5_InvalidCapacityExactly ==
    /\ (PreparedBy("Create") \/ (PreparedBy("Update") /\ C5_InputCell.ok))
       => ((ret.result.err = "InvalidCapacity") <=> C5_Underfunded)
    /\ (ret.op = "prepare_transaction" /\ ret.result.kind = "Err") => ViewerUnchanged

\* C5 amended: InvalidCapacity(occupied, provided) is the error exactly when the
\* checks that come before the output is built pass (none for Create; for Update
\* the header resolves and the input cell is there with a type-id type script), a
\* capacity is given and it is below the occupied capacity; whatever the error,
\* the viewer is as it was.
C5_InvalidCapacityAfterChecks ==
    /\ (PreparedBy("Create") \/ PreparedBy("Update"))
       => /\ (ret.result.err = "InvalidCapacity") <=> (C5_ChecksPass /\ C5_Underfunded)
          /\ ret.result.err = "InvalidCapacity"
                => ret.result.detail = <<C5_Occupied, Unwrap(context.capacity)>>
          /\ OkTrue(ret.result) <=> (C5_ChecksPass /\ ~C5_Underfunded)
    /\ (ret.op = "prepare_transaction" /\ ret.result.kind # "Ok") => ViewerUnchanged

C5_Witness ==
    /\ PreparedBy("Update")
    /\ ret.result.err = "InvalidCapacity"
    /\ pre.tx.outputs # <<>>

\* C6: there are as many outputs as outputs_data, in the transaction build_base
\* returns and after every handler call made on it, failed or not.
C6_OutputsMatchData == Len(tx.outputs) = Len(tx.outputs_data)

C6_Witness ==
    /\ ret.op = "post_build"
    /\ builder.outputs # <<>>
    /\ Len(tx.outputs) > Len(builder.outputs) + 1
    /\ transaction_inputs # <<>>

\* C7: a successful Update prepare appends one output, with the input cell's
\* type script and the lock of the action (the input cell's lock when None), and
\* one input for input_point with since 0 behind the inputs already there, which
\* keep their places.
C7_UpdateFrame ==
    (PreparedBy("Update") /\ OkTrue(ret.result))
    => LET input_point == Unwrap(context.action.input_point)
           cell == GetCellWithData(input_point).cell
           n == Len(pre.tx.outputs)
           m == Len(pre.transaction_inputs)
       IN  /\ Len(tx.outputs) = n + 1
           /\ SubSeq(tx.outputs, 1, n) = pre.tx.outputs
           /\ LastOutput.type_ = cell.type_
           /\ LastOutput.lock = IF IsSome(context.action.lock) THEN Unwrap(context.action.lock)
                                ELSE cell.lock
           /\ Len(transaction_inputs) = m + 1
           /\ SubSeq(transaction_inputs, 1, m) = pre.transaction_inputs
           /\ transaction_inputs[m + 1].live_cell.out_point = input_point
           /\ transaction_inputs[m + 1].since = 0
           /\ tx.inputs = pre.tx.inputs

C7_Witness ==
    /\ PreparedBy("Update")
    /\ OkTrue(ret.result)
    /\ context.action.lock = None
    /\ Len(transaction_inputs) = 3
    /\ transaction_inputs[1] = CallerInput
    /\ tx.inputs # <<>>

BuiltBase == ret.op = "build_base" /\ ret.result.kind = "Ok"

\* C8: with an admin config and RCE cells, rce_in_input makes every RCE
\* out-point an input, once, none of them a cell-dep, and puts the lock and type
\* deps the resolver knows into cell_deps; without rce_in_input there is no input
\* and every RCE out-point is a Code cell-dep.  Without an admin config the RCE
\* cells give neither inputs nor cell-deps.
C8_RceCells ==
    BuiltBase
    => LET cells == IF IsSome(builder.rce_cells) THEN Range(Unwrap(builder.rce_cells)) ELSE {}
       IN  IF IsSome(builder.cfg.admin) /\ IsSome(builder.rce_cells)
           THEN IF Unwrap(builder.cfg.admin).rce_in_input
                THEN /\ Range(tx.inputs) = {CellInput(c, 0) : c \in cells}
                     /\ Len(tx.inputs) = Cardinality(cells)
                     /\ \A c \in cells : \A d \in tx.cell_deps : d.out_point # c
                     /\ \A c \in cells : \A sc \in CellScripts(GetCell(c).cell) :
                            IsSome(Resolve(builder.resolver, sc))
                                => Unwrap(Resolve(builder.resolver, sc)) \in tx.cell_deps
                ELSE /\ tx.inputs = <<>>
                     /\ \A c \in cells : CellDep(c, "Code") \in tx.cell_deps
           ELSE /\ tx.inputs = <<>>
                /\ tx.cell_deps = OutputCellDeps(builder) \cup IdentityDeps(builder)

C8_Witness ==
    /\ BuiltBase
    /\ IsSome(builder.cfg.admin)
    /\ Unwrap(builder.cfg.admin).rce_in_input
    /\ builder.rce_cells = Some(<<OpSudt, OpTypeId>>)
    /\ Len(tx.inputs) = 2
    /\ SighashDep \in tx.cell_deps

\* the scripts the transaction refers to whose identity is not type-id
C9_Referenced ==
    {sc \in UNION {Range(builder.outputs[i][1].type_) : i \in DOMAIN builder.outputs}
            \cup (IF IsSome(builder.cfg.admin) /\ IsSome(builder.rce_cells)
                        /\ Unwrap(builder.cfg.admin).rce_in_input
                  THEN UNION {CellScripts(GetCell(c).cell) :
                                c \in {x \in Range(Unwrap(builder.rce_cells)) : GetCell(x).ok}}
                  ELSE {})
            \cup Range(IdentityScript(IdFlag(builder.cfg))) :
        ~(sc.code_hash = TYPE_ID_CODE_HASH /\ sc.hash_type = "Type")}

\* C9: when build_base returns Ok every referenced script that is not type-id
\* has its cell-dep in cell_deps; one the resolver does not know makes build_base
\* fail with ResolveCellDepFailed.
C9_ReferencedScriptsHaveDeps ==
    ret.op = "build_base"
    => /\ ret.result.kind = "Ok"
            => \A sc \in C9_Referenced :
                    /\ IsSome(Resolve(builder.resolver, sc))
                    /\ Unwrap(Resolve(builder.resolver, sc)) \in tx.cell_deps
       /\ (\E sc \in C9_Referenced : ~IsSome(Resolve(builder.resolver, sc)))
            => ret.result.kind # "Ok"

\* C10: the handler changes nothing when it does not act: prepare_transaction
\* with a context of another kind gives false, build_transaction with a script
\* group that is not type-id or a context of another kind gives false, and
\* prepare_transaction with Handled gives true.
C10_UntouchedWhenNotActing ==
    /\ (ret.op = "prepare_transaction" /\ context.kind # "TypeIdContext")
            => (OkFalse(ret.result) /\ ViewerUnchanged)
    /\ ( /\ ret.op = "build_transaction"
         /\ \/ ~(ret.group.script.code_hash = TYPE_ID_CODE_HASH
                    /\ ret.group.script.hash_type = "Type")
            \/ context.kind # "TypeIdContext" )
            => (OkFalse(ret.result) /\ ViewerUnchanged)
    /\ PreparedBy("Handled") => (OkTrue(ret.result) /\ ViewerUnchanged)

C10_Witness ==
    /\ ret.op = "build_transaction"
    /\ ret.group.script = SudtType
    /\ context.kind = "TypeIdContext"
    /\ transaction_inputs # <<>>

-----------------------------------------------------------------------------
(* The caller-facing objects.  A call returns the object it leaves and     *)
(* its result; a call that aborts leaves no object.                        *)

MaxKeys == 2        \* keys in one add_sighash_unlocker* call
MaxEntries == 2     \* receivers, items or contexts an object holds
H256Digits == 2     \* hex digits of an H256 text (64 in the chain's encoding)

FOut(object, result) == [facade |-> object, result |-> result]
Aborted == [kind |-> "aborted"]
SeqsUpTo(S, n) == UNION {[1..k -> S] : k \in 0..n}

\* HashMap::insert: the entry under key is put or replaced
Insert(map, key, value) ==
    [k \in (DOMAIN map) \cup {key} |-> IF k = key THEN value ELSE map[k]]

(* H256::parse: a text of hex digits, here a sequence of digit values; a   *)
(* value above 15 stands for a character that is no hex digit.             *)
RECURSIVE HexValue(_)
HexValue(text) ==
    IF text = <<>> THEN 0
    ELSE 16 * HexValue(SubSeq(text, 1, Len(text) - 1)) + text[Len(text)]

H256Parse(text) ==
    IF Len(text) = H256Digits /\ \A i \in DOMAIN text : text[i] \in 0..15
    THEN Some(HexValue(text))
    ELSE None

\* secp256k1::SecretKey::from_slice: zero is no secret key
SecretKeyFromSlice(h256) == IF h256 = 0 THEN None ELSE Some([secret |-> h256])

(* Address::from_str: the text carries a human-readable part, the payload  *)
(* and whether its checksum verifies.                                      *)
AddressText(hrp, script, intact) ==
    [hrp |-> hrp, intact |-> intact,
     payload |-> [code_hash |-> script.code_hash, hash_type |-> script.hash_type,
                  args |-> script.args]]

AddressFromStr(text) ==
    IF text.intact /\ text.hrp \in {"ckb", "ckt"}
    THEN Some([network |-> IF text.hrp = "ckb" THEN "Mainnet" ELSE "Testnet",
               payload |-> text.payload])
    ELSE None

\* Script::from(address.payload())
ScriptFromPayload(payload) == Script(payload.code_hash, payload.hash_type, payload.args)

-----------------------------------------------------------------------------
(* DefaultOmnilockBuilder: src/tx_builder/omni_lock/builder.rs *)

NetworkTypes == {"Mainnet", "Testnet", "Dev"}
OMNILOCK_TYPE_HASH_MAINNET == "OMNILOCK_TYPE_HASH_MAINNET"
OMNILOCK_TYPE_HASH_TESTNET == "OMNILOCK_TYPE_HASH_TESTNET"

\* get_default_script_id; None stands for its panic
get_default_script_id_Mainnet(network_type) ==
    IF network_type \in {"Mainnet", "Testnet"}
    THEN Some(NewTypeId(OMNILOCK_TYPE_HASH_MAINNET))
    ELSE None

get_default_script_id(network_type) ==
    IF network_type = "Mainnet" THEN Some(NewTypeId(OMNILOCK_TYPE_HASH_MAINNET))
    ELSE IF network_type = "Testnet" THEN Some(NewTypeId(OMNILOCK_TYPE_HASH_TESTNET))
    ELSE None

OmniUnlockModes == {"Admin", "Normal"}
OmniUnlockModeDefault == "Normal"

(* OmniLockConfig::placeholder_witness: the witness of the effective       *)
(* identity, admin.auth in admin mode and id otherwise; the admin mode     *)
(* carries the admin identity and cannot be served without an admin        *)
(* config.                                                                 *)
EffectiveIdentity(cfg, unlock_mode) ==
    IF unlock_mode = "Admin" THEN Unwrap(cfg.admin).auth ELSE cfg.id

placeholder_witness(cfg, unlock_mode) ==
    IF unlock_mode = "Admin" /\ ~HasAdmin(cfg)
    THEN Err("Other", <<"NoAdminConfig">>)
    ELSE Ok([signature |-> IF EffectiveIdentity(cfg, unlock_mode).flag = "OwnerLock"
                           THEN <<>> ELSE Zeros(65),
             omni_identity |-> IF unlock_mode = "Admin"
                               THEN Some(EffectiveIdentity(cfg, unlock_mode))
                               ELSE None])

\* the unlock mode a placeholder witness was computed for
WitnessMode(witness) == IF IsSome(witness.omni_identity) THEN "Admin" ELSE "Normal"

DefaultOmnilockBuilder(network_type, cfg, unlock_mode, witness, unlockers) ==
    [kind |-> "DefaultOmnilockBuilder", network_type |-> network_type, cfg |-> cfg,
     rce_cells |-> None, unlock_mode |-> unlock_mode,
     sender_placeholder_witness |-> witness, unlockers |-> unlockers]

new_with_address(network_type, sender_address, cfg) ==
    LET unlock_mode == OmniUnlockModeDefault
        placeholder == placeholder_witness(cfg, unlock_mode)
    IN  IF placeholder.kind # "Ok" THEN FOut(NoFacade, placeholder)
        ELSE FOut(DefaultOmnilockBuilder(network_type, cfg, unlock_mode,
                                         placeholder.value, <<>>), Ok(TRUE))

new(network_type, sender_addr, cfg) ==
    LET sender_address == AddressFromStr(sender_addr)
    IN  IF ~IsSome(sender_address) THEN FOut(NoFacade, Err("AddressFormat", <<sender_addr>>))
        ELSE new_with_address(network_type, Unwrap(sender_address), cfg)

\* set_sender_placeholder_witness is all set_unlock_mode does with the mode
SetMode(b, unlock_mode, witness) == [b EXCEPT !.sender_placeholder_witness = witness]

set_unlock_mode(b, unlock_mode) ==
    LET placeholder == placeholder_witness(b.cfg, unlock_mode)
    IN  IF placeholder.kind # "Ok" THEN FOut(b, placeholder)
        ELSE FOut(SetMode(b, unlock_mode, placeholder.value), Ok(TRUE))

\* for key in keys { H256::parse(key)? }: every text converts, or the call fails
RECURSIVE ParseKeys_SkipInvalid(_)
ParseKeys_SkipInvalid(keys) ==
    IF keys = <<>> THEN Some(<<>>)
    ELSE LET head == H256Parse(Head(keys))
             rest == Unwrap(ParseKeys_SkipInvalid(Tail(keys)))
         IN  Some((IF IsSome(head) THEN <<Unwrap(head)>> ELSE <<>>) \o rest)

RECURSIVE ParseKeys(_)
ParseKeys(keys) ==
    IF keys = <<>> THEN Some(<<>>)
    ELSE LET head == H256Parse(Head(keys))
             rest == ParseKeys(Tail(keys))
         IN  IF IsSome(head) /\ IsSome(rest)
             THEN Some(<<Unwrap(head)>> \o Unwrap(rest))
             ELSE None

\* for key in sign_keys { SecretKey::from_slice(key)? }
RECURSIVE SecretKeys(_)
SecretKeys(sign_keys) ==
    IF sign_keys = <<>> THEN Some(<<>>)
    ELSE LET head == SecretKeyFromSlice(Head(sign_keys))
             rest == SecretKeys(Tail(sign_keys))
         IN  IF IsSome(head) /\ IsSome(rest)
             THEN Some(<<Unwrap(head)>> \o Unwrap(rest))
             ELSE None

\* OmniLockUnlocker over an OmniLockScriptSigner over a SecpCkbRawKeySigner
OmniLockUnlocker(secrect_keys, cfg, unlock_mode) ==
    [signer |-> [keys |-> Range(secrect_keys), config |-> cfg, unlock_mode |-> unlock_mode],
     config |-> cfg]

add_sighash_unlocker_from_secrect_keys(b, secrect_keys) ==
    LET omnilock_unlocker == OmniLockUnlocker(secrect_keys, b.cfg, b.unlock_mode)
        omnilock_script_id == get_default_script_id(b.network_type)
    IN  IF ~IsSome(omnilock_script_id)
        THEN FOut(Aborted, Panic("can only handle mainnet and testnet"))
        ELSE FOut([b EXCEPT !.unlockers =
                      Insert(@, Unwrap(omnilock_script_id), omnilock_unlocker)], Ok(TRUE))

add_sighash_unlocker(b, sign_keys) ==
    LET secrect_keys == SecretKeys(sign_keys)
    IN  IF ~IsSome(secrect_keys) THEN FOut(b, Err("KeyFormat", sign_keys))
        ELSE add_sighash_unlocker_from_secrect_keys(b, Unwrap(secrect_keys))

add_sighash_unlocker_from_str(b, keys) ==
    LET sign_keys == ParseKeys(keys)
    IN  IF ~IsSome(sign_keys) THEN FOut(b, Err("KeyFormat", keys))
        ELSE add_sighash_unlocker(b, Unwrap(sign_keys))

\* an unlocker of another lock, registered by the caller in base_builder.unlockers
SighashUnlocker == [signer |-> [keys |-> {[secret |-> 1]}]]
SighashScriptId == NewTypeId(SIGHASH_TYPE_HASH)
insert_unlocker(b, script_id, unlocker) ==
    FOut([b EXCEPT !.unlockers = Insert(@, script_id, unlocker)], Ok(TRUE))

-----------------------------------------------------------------------------
(* The DAO builders: src/tx_builder/dao/builder.rs *)

DefaultDaoDepositBuilder(receivers) ==
    [kind |-> "DefaultDaoDepositBuilder", receivers |-> receivers]

DaoDepositReceiver(lock_script, capacity) ==
    [lock_script |-> lock_script, capacity |-> capacity]

add_dao_output(b, lock_script, capacity) ==
    [b EXCEPT !.receivers = Append(@, DaoDepositReceiver(lock_script, capacity))]

add_dao_output_addr(b, address, capacity) ==
    add_dao_output(b, ScriptFromPayload(address.payload), capacity)

add_dao_output_str(b, receiver_addr, capacity) ==
    LET address == AddressFromStr(receiver_addr)
    IN  IF ~IsSome(address) THEN FOut(b, Err("AddressFormat", <<receiver_addr>>))
        ELSE FOut(add_dao_output_addr(b, Unwrap(address), capacity), Ok(TRUE))

DefaultDaoWithdrawPhase1Builder(items) ==
    [kind |-> "DefaultDaoWithdrawPhase1Builder", items |-> items]

DaoPrepareItem(input, lock_script) == [input |-> input, lock_script |-> lock_script]

add_input_item(b, input, lock_script) ==
    [b EXCEPT !.items = Append(@, DaoPrepareItem(input, lock_script))]

add_simple_input(b, tx_hash, index, lock_script) ==
    LET hash == H256Parse(tx_hash)
    IN  IF ~IsSome(hash) THEN FOut(b, Err("InvalidParameter", <<tx_hash>>))
        ELSE FOut(add_input_item(b, CellInput(OutPoint(Unwrap(hash), index), 0), lock_script),
                  Ok(TRUE))

-----------------------------------------------------------------------------
(* HandlerContexts: src/transaction/handler/mod.rs *)

HandlerContexts(contexts) == [kind |-> "HandlerContexts", contexts |-> contexts]

MultisigContext(config) ==
    [kind |-> "Secp256k1Blake160MultisigAllScriptContext", config |-> config]
WithdrawPhrase1Context == [kind |-> "WithdrawPhrase1Context"]

default == HandlerContexts(<<SighashContext>>)
new_contexts(ctx) == HandlerContexts(<<ctx>>)
new_sighash == HandlerContexts(<<SighashContext>>)
new_multisig(config) == HandlerContexts(<<MultisigContext(config)>>)
new_dao_withdraw_phrase1 == HandlerContexts(<<WithdrawPhrase1Context>>)
new_dao_withdraw_phrase2 == HandlerContexts(<<WithdrawPhrase1Context>>)

add_context(hc, ctx) == [hc EXCEPT !.contexts = Append(@, ctx)]
extend_contexts(hc, other) == [hc EXCEPT !.contexts = @ \o other.contexts]

-----------------------------------------------------------------------------
(* The calls a caller makes on these objects, and what it passes *)

\* an H256 text whose last digit is d
KeyText(d) == [i \in 1..H256Digits |-> IF i = H256Digits THEN d ELSE 0]
KeyTexts == {KeyText(1), KeyText(2), KeyText(16)}
HashTexts == {KeyText(1), KeyText(16), Zeros(H256Digits - 1)}
SignKeys == {0, 1}
SecrectKeys == {[secret |-> 1], [secret |-> 2]}

AddressTexts ==
    {AddressText("ckt", SenderLock, TRUE), AddressText("ckt", OtherLock, TRUE),
     AddressText("ckt", SenderLock, FALSE), AddressText("bc", SenderLock, TRUE)}
SenderAddrs == {AddressText("ckt", SenderLock, TRUE), AddressText("ckt", SenderLock, FALSE)}
DepositCapacities == {Cap(102, 0), Cap(200, 0)}

FacadeConfigs ==
    {OmniLockConfig(Identity("PubkeyHash"), None),
     OmniLockConfig(Identity("PubkeyHash"), Some(AdminConfig(Identity("OwnerLock"), FALSE)))}

MultisigConfig ==
    [require_first_n |-> 0, threshold |-> 1, sighash_addresses |-> <<Fill(20, 1)>>]
CallerContexts ==
    {SighashContext, WithdrawPhrase1Context, TypeIdContext(Create(None), <<>>, None)}

\* the constructors of HandlerContexts, by name
Constructors ==
    {<<"default", default>>, <<"new_sighash", new_sighash>>,
     <<"new_multisig", new_multisig(MultisigConfig)>>,
     <<"new_dao_withdraw_phrase1", new_dao_withdraw_phrase1>>,
     <<"new_dao_withdraw_phrase2", new_dao_withdraw_phrase2>>}
       \cup {<<"new", new_contexts(ctx)>> : ctx \in CallerContexts}

FCall(op, arg, result, before) == [op |-> op, arg |-> arg, result |-> result, pre |-> before]

InitFacade ==
    InitWith({TransferBuilder(<<>>, OmniLockConfig(Identity("PubkeyHash"), None), None,
                              FullResolver)},
             {SighashContext}, {<<>>})

\* a call on the facade returned: the object it left, the call and what it started from
FReturned(op, arg, out) ==
    /\ facade' = out.facade
    /\ fcall' = FCall(op, arg, out.result, facade)
    /\ UNCHANGED <<builder, context, tx, transaction_inputs, pc, ret, pre>>

NewOmnilock ==
    /\ facade.kind = "none"
    /\ \E network_type \in NetworkTypes, sender_addr \in SenderAddrs, cfg \in FacadeConfigs :
          FReturned("DefaultOmnilockBuilder::new", <<network_type, sender_addr, cfg>>,
                    new(network_type, sender_addr, cfg))

NewDaoDeposit ==
    /\ facade.kind = "none"
    /\ FReturned("DefaultDaoDepositBuilder::new_with_address", <<>>,
                 FOut(DefaultDaoDepositBuilder(<<>>), Ok(TRUE)))

NewDaoWithdrawPhase1 ==
    /\ facade.kind = "none"
    /\ FReturned("DefaultDaoWithdrawPhase1Builder::new_with_address", <<>>,
                 FOut(DefaultDaoWithdrawPhase1Builder(<<>>), Ok(TRUE)))

NewHandlerContexts ==
    /\ facade.kind = "none"
    /\ \E constructor \in Constructors :
          FReturned(constructor[1], <<>>, FOut(constructor[2], Ok(TRUE)))

SetUnlockMode ==
    /\ facade.kind = "DefaultOmnilockBuilder"
    /\ \E unlock_mode \in OmniUnlockModes :
          FReturned("set_unlock_mode", <<unlock_mode>>, set_unlock_mode(facade, unlock_mode))

AddSighashUnlockerFromStr ==
    /\ facade.kind = "DefaultOmnilockBuilder"
    /\ \E keys \in SeqsUpTo(KeyTexts, MaxKeys) :
          FReturned("add_sighash_unlocker_from_str", keys,
                    add_sighash_unlocker_from_str(facade, keys))

AddSighashUnlocker ==
    /\ facade.kind = "DefaultOmnilockBuilder"
    /\ \E sign_keys \in SeqsUpTo(SignKeys, MaxKeys) :
          FReturned("add_sighash_unlocker", sign_keys, add_sighash_unlocker(facade, sign_keys))

AddSighashUnlockerFromSecrectKeys ==
    /\ facade.kind = "DefaultOmnilockBuilder"
    /\ \E secrect_keys \in SeqsUpTo(SecrectKeys, MaxKeys) :
          FReturned("add_sighash_unlocker_from_secrect_keys", secrect_keys,
                    add_sighash_unlocker_from_secrect_keys(facade, secrect_keys))

InsertUnlocker ==
    /\ facade.kind = "DefaultOmnilockBuilder"
    /\ SighashScriptId \notin DOMAIN facade.unlockers
    /\ FReturned("unlockers.insert", <<SighashScriptId>>,
                 insert_unlocker(facade, SighashScriptId, SighashUnlocker))

AddDaoOutputStr ==
    /\ facade.kind = "DefaultDaoDepositBuilder"
    /\ Len(facade.receivers) < MaxEntries
    /\ \E receiver_addr \in AddressTexts, capacity \in DepositCapacities :
          FReturned("add_dao_output_str", <<receiver_addr, capacity>>,
                    add_dao_output_str(facade, receiver_addr, capacity))

AddSimpleInput ==
    /\ facade.kind = "DefaultDaoWithdrawPhase1Builder"
    /\ Len(facade.items) < MaxEntries
    /\ \E tx_hash \in HashTexts, index \in 0..1, lock_script \in {None, Some(SenderLock)} :
          FReturned("add_simple_input", <<tx_hash, index, lock_script>>,
                    add_simple_input(facade, tx_hash, index, lock_script))

AddContext ==
    /\ facade.kind = "HandlerContexts"
    /\ Len(facade.contexts) < MaxEntries
    /\ \E ctx \in CallerContexts :
          FReturned("add_context", <<ctx>>, FOut(add_context(facade, ctx), Ok(TRUE)))

ExtendContexts ==
    /\ facade.kind = "HandlerContexts"
    /\ \E constructor \in Constructors :
          /\ Len(facade.contexts) + Len(constructor[2].contexts) <= MaxEntries
          /\ FReturned("extend_contexts", <<constructor[2]>>,
                       FOut(extend_contexts(facade, constructor[2]), Ok(TRUE)))

NextFacade ==
    \/ NewOmnilock \/ NewDaoDeposit \/ NewDaoWithdrawPhase1 \/ NewHandlerContexts
    \/ SetUnlockMode \/ AddSighashUnlockerFromStr \/ AddSighashUnlocker
    \/ AddSighashUnlockerFromSecrectKeys \/ InsertUnlocker
    \/ AddDaoOutputStr \/ AddSimpleInput \/ AddContext \/ ExtendContexts

SpecFacade == InitFacade /\ [][NextFacade]_vars

-----------------------------------------------------------------------------
(* Properties of the caller-facing objects *)

FOk == fcall.result.kind = "Ok"
FErr(err) == fcall.result.kind = "Err" /\ fcall.result.err = err
FUnchanged == facade = fcall.pre

\* a text that is no H256: wrong length, or a character that is no hex digit
NoH256(text) == Len(text) # H256Digits \/ \E i \in DOMAIN text : text[i] > 15
\* a text that is no secret key: no H256, or the H256 zero
NoSecretKeyText(text) == NoH256(text) \/ \A i \in DOMAIN text : text[i] = 0
\* a text that is no address: a broken checksum, or an unknown human-readable part
NoAddress(text) == ~text.intact \/ text.hrp \notin {"ckb", "ckt"}

C11_SomeKeyInvalid ==
    \/ /\ fcall.op = "add_sighash_unlocker_from_str"
       /\ \E i \in DOMAIN fcall.arg : NoSecretKeyText(fcall.arg[i])
    \/ /\ fcall.op = "add_sighash_unlocker"
       /\ \E i \in DOMAIN fcall.arg : fcall.arg[i] = 0

C11_CallerErrors ==
    /\ C11_SomeKeyInvalid => FErr("KeyFormat") /\ FUnchanged
    /\ (fcall.op = "add_dao_output_str" /\ NoAddress(fcall.arg[1]))
          => FErr("AddressFormat") /\ FUnchanged
    /\ (fcall.op = "add_simple_input" /\ NoH256(fcall.arg[1]))
          => FErr("InvalidParameter") /\ FUnchanged

C11_AddSighashOps ==
    {"add_sighash_unlocker_from_str", "add_sighash_unlocker",
     "add_sighash_unlocker_from_secrect_keys"}

C11_DaoAppendsOne ==
    /\ (fcall.op = "add_dao_output_str" /\ FOk)
          => /\ Len(facade.receivers) = Len(fcall.pre.receivers) + 1
             /\ SubSeq(facade.receivers, 1, Len(fcall.pre.receivers)) = fcall.pre.receivers
    /\ (fcall.op = "add_simple_input" /\ FOk)
          => /\ Len(facade.items) = Len(fcall.pre.items) + 1
             /\ SubSeq(facade.items, 1, Len(fcall.pre.items)) = fcall.pre.items

\* C11: a caller error (KeyFormat for a key list with an invalid key, AddressFormat
\* for an unparsable address, InvalidParameter for an unparsable tx hash) leaves the
\* builder as it was, and every successful call adds exactly one entry: one more
\* receiver, one more item, one more unlocker in the registry.
C11_ErrorsKeepSuccessAddsOne ==
    /\ C11_CallerErrors
    /\ C11_DaoAppendsOne
    /\ (fcall.op \in C11_AddSighashOps /\ FOk)
          => Cardinality(DOMAIN facade.unlockers) = Cardinality(DOMAIN fcall.pre.unlockers) + 1

\* C11, amended: a caller error leaves the builder as it was; a successful
\* add_dao_output_str or add_simple_input appends exactly one entry; a successful
\* add_sighash_unlocker* leaves one unlocker under an omnilock script id, added by the
\* first such call and replaced by every later one, so the registry then does not grow.
C11_ErrorsKeepSuccessPutsOne ==
    /\ C11_CallerErrors
    /\ C11_DaoAppendsOne
    /\ (fcall.op \in C11_AddSighashOps /\ FOk)
          => \E id \in DOMAIN facade.unlockers :
                /\ id.code_hash \in {OMNILOCK_TYPE_HASH_MAINNET, OMNILOCK_TYPE_HASH_TESTNET}
                /\ DOMAIN facade.unlockers = (DOMAIN fcall.pre.unlockers) \cup {id}
                /\ Cardinality(DOMAIN facade.unlockers) =
                      Cardinality(DOMAIN fcall.pre.unlockers)
                         + (IF id \in DOMAIN fcall.pre.unlockers THEN 0 ELSE 1)

\* an invalid key after a valid one was refused by a builder that had an unlocker
C11_Witness ==
    /\ fcall.op = "add_sighash_unlocker_from_str"
    /\ Len(fcall.arg) = 2
    /\ ~NoSecretKeyText(fcall.arg[1])
    /\ NoSecretKeyText(fcall.arg[2])
    /\ FErr("KeyFormat")
    /\ facade.kind = "DefaultOmnilockBuilder"
    /\ DOMAIN facade.unlockers # {}

-----------------------------------------------------------------------------
(* The capacity of a created type-id cell *)

\* a Create with the 53-byte sighash sender lock, one byte of data and no capacity succeeded
C12_Case ==
    /\ PreparedBy("Create")
    /\ OkTrue(ret.result)
    /\ context.action.lock = Some(Script(SIGHASH_TYPE_HASH, "Type", Fill(20, 1)))
    /\ Len(context.data) = 1
    /\ context.capacity = None

C12_TypeIsPlaceholder ==
    LastOutput.type_ = Some(Script(TYPE_ID_CODE_HASH, "Type", Zeros(32)))

\* C12: a Create with a 53-byte sighash lock, 1 byte of data and capacity None appends
\* an output of (8+53+53+1) bytes whose type script is the type-id script with 32-byte
\* placeholder args.
C12_CreateCapacityIs115 ==
    C12_Case => /\ LastOutput.capacity = CapacityBytes(8 + 53 + 53 + 1)
                /\ C12_TypeIsPlaceholder

\* C12, amended: the type-id script with 32-byte args occupies 32 + 1 + 32 = 65 bytes,
\* so the output's capacity is (8+53+65+1) = 127 bytes.
C12_CreateCapacityIs127 ==
    C12_Case => /\ LastOutput.capacity = CapacityBytes(8 + 53 + 65 + 1)
                /\ C12_TypeIsPlaceholder

C12_Witness ==
    /\ C12_Case
    /\ pre.tx.outputs = <<>>
    /\ Len(tx.outputs) = 1
    /\ LastOutput.lock = context.action.lock[1]
    /\ LastData = context.data

-----------------------------------------------------------------------------
(* The unlock mode of a DefaultOmnilockBuilder *)

C13_OmnilockId(network_type) ==
    NewTypeId(IF network_type = "Mainnet" THEN OMNILOCK_TYPE_HASH_MAINNET
              ELSE OMNILOCK_TYPE_HASH_TESTNET)

\* an add_sighash_unlocker* call has just registered an unlocker
C13_Registered == fcall.op \in C11_AddSighashOps /\ FOk

\* C13: the unlock mode the sender placeholder witness was computed for is the mode
\* of every unlocker registered after it: after a successful set_unlock_mode(m) an
\* unlocker added by add_sighash_unlocker* signs in mode m; a failing set_unlock_mode
\* leaves the placeholder witness and the mode unchanged.
C13_UnlockerSignsInPlaceholderMode ==
    /\ C13_Registered
          => facade.unlockers[C13_OmnilockId(facade.network_type)].signer.unlock_mode
                = WitnessMode(facade.sender_placeholder_witness)
    /\ (fcall.op = "set_unlock_mode" /\ ~FOk) => FUnchanged

-----------------------------------------------------------------------------
(* build_base and the identity flags *)

\* C14: build_base returns Ok or a TxBuilderError and never aborts, whatever the
\* effective identity flag (admin.auth with an admin config, id otherwise) is.
C14_BuildBaseNeverAborts ==
    ret.op = "build_base" => ret.result.kind \in {"Ok", "Err"}

-----------------------------------------------------------------------------
(* The unlocker registry of a DefaultOmnilockBuilder *)

\* the secret keys the last add_sighash_unlocker* call was given
C15_KeysOfCall ==
    IF fcall.op = "add_sighash_unlocker_from_str"
    THEN {[secret |-> HexValue(fcall.arg[i])] : i \in DOMAIN fcall.arg}
    ELSE IF fcall.op = "add_sighash_unlocker"
    THEN {[secret |-> fcall.arg[i]] : i \in DOMAIN fcall.arg}
    ELSE {fcall.arg[i] : i \in DOMAIN fcall.arg}

C15_OmnilockIds ==
    {id \in DOMAIN facade.unlockers :
        id.code_hash \in {OMNILOCK_TYPE_HASH_MAINNET, OMNILOCK_TYPE_HASH_TESTNET}}

\* C15: after a successful add_sighash_unlocker* call the registry holds exactly one
\* entry under the network's omnilock script id, its unlocker signs with the keys of
\* this call and no others (keys of earlier calls are gone), and the entries under
\* other script ids are as they were.
C15_OneOmnilockUnlockerLatestKeys ==
    C13_Registered
    => LET id == C13_OmnilockId(facade.network_type)
       IN  /\ C15_OmnilockIds = {id}
           /\ facade.unlockers[id].signer.keys = C15_KeysOfCall
           /\ (DOMAIN facade.unlockers) \ {id} = (DOMAIN fcall.pre.unlockers) \ {id}
           /\ \A other \in (DOMAIN fcall.pre.unlockers) \ {id} :
                 facade.unlockers[other] = fcall.pre.unlockers[other]

\* a later call replaced the keys of an earlier one, next to an unlocker of another lock
C15_Witness ==
    /\ C13_Registered
    /\ LET id == C13_OmnilockId(facade.network_type)
       IN  /\ id \in DOMAIN fcall.pre.unlockers
           /\ fcall.pre.unlockers[id].signer.keys # {}
           /\ fcall.pre.unlockers[id].signer.keys \cap facade.unlockers[id].signer.keys = {}
           /\ facade.unlockers[id].signer.keys # {}
    /\ SighashScriptId \in DOMAIN fcall.pre.unlockers
    /\ facade.network_type = "Testnet"

-----------------------------------------------------------------------------
(* The DAO withdraw contexts *)

\* C16: the single context of new_dao_withdraw_phrase2 targets the phase-2 handler:
\* it is not the phase-1 context that new_dao_withdraw_phrase1 produces, so a handler
\* matching contexts by type tag tells the two apart.
C16_Phrase2IsNotPhrase1 ==
    fcall.op = "new_dao_withdraw_phrase2"
    => /\ Len(facade.contexts) = 1
       /\ facade.contexts[1].kind # "WithdrawPhrase1Context"
       /\ facade.contexts # HandlerContexts(<<[kind |-> "WithdrawPhrase1Context"]>>).contexts

====
